---- MODULE Spec2Model ----
(***************************************************************************)
(* State-machine model of src/bridge/unix-sockets.hpp: the owned socket    *)
(* descriptor (Socket), its readiness cache, the local connector/acceptor  *)
(* roles built on it, and the poll list.  The operating system is the      *)
(* environment: every system call's result is an input of the action that  *)
(* issues it.                                                              *)
(***************************************************************************)
EXTENDS Integers, Sequences, FiniteSets, TLC

\* ---------------------------------------------------------------- bounds
NumSlots == 2        \* Socket objects that can exist at the same time
MaxFd == 2           \* descriptors the operating system hands out in a run
MaxBytes == 1        \* largest byte count a send/recv is asked to move
MaxMsgs == 4         \* messages the peer can have queued for the connector
MaxList == 3         \* entries the poll list can hold
MaxNul == 2          \* positions at which a path can hold an embedded NUL byte

\* ------------------------------------------------------- program constants
sInvalidSocket == -1
sNotAnError == 0
POLLIN == 1
POLLPRI == 2
POLLOUT == 4
POLLERR == 8
POLLHUP == 16
POLLNVAL == 32
O_NONBLOCK == 2048
AF_UNIX == 1
EBADF == 9
EINTR == 4
EAGAIN == 11
ENOMEM == 12
EWOULDBLOCK == 11
ECONNRESET == 104
EACCES == 13
sMaxSize == 110
sPathOffset == 2
HalfWord == 65536

Slots == 1..NumSlots
Fds == 1..MaxFd
Events == 0..63
\* lengths of the paths handed to the constructors
PathLens == {0, 1, sMaxSize - sPathOffset}

\* a system call's raw outcome: its return value and errno
Ok(n) == [ret |-> n, errno |-> 0]
Fail(e) == [ret |-> -1, errno |-> e]
\* one entry of the log of system calls an operation issued
Call(name, r) == [name |-> name, ret |-> r.ret, errno |-> r.errno]

HasBit(v, b) == (v \div b) % 2 = 1

\* ------------------------------------------------------ result translation
SysReturnValue(value) == [mCode |-> sNotAnError, mValue |-> value]
SysReturnCode(code) == [mCode |-> code, mValue |-> 0]
IsError(sr) == sr.mCode # sNotAnError

SysCall(r) ==
    IF r.ret # -1 THEN SysReturnValue(r.ret) ELSE SysReturnCode(r.errno)

SysCallBlocking_AllErrorsBlock(r) ==
    IF r.ret # -1 THEN [has |-> TRUE, sr |-> SysReturnValue(r.ret)]
    ELSE [has |-> FALSE, sr |-> SysReturnCode(r.errno)]

SysCallBlocking(r) ==
    IF r.ret # -1 THEN [has |-> TRUE, sr |-> SysReturnValue(r.ret)]
    ELSE IF r.errno = EWOULDBLOCK \/ r.errno = EAGAIN
         THEN [has |-> FALSE, sr |-> SysReturnCode(r.errno)]
         ELSE [has |-> TRUE, sr |-> SysReturnCode(r.errno)]

\* the outcome an operation hands to its caller
Outcome(kind, v) == [kind |-> kind, v |-> v]
Unwrap(sr) ==
    IF IsError(sr) THEN Outcome("system_error", sr.mCode)
    ELSE Outcome("value", sr.mValue)

\* ------------------------------------------------------------------ state
VARIABLES
    live,            \* slot -> "none" | "Connector" | "Acceptor"
    mDescriptor,     \* slot -> Socket::mDescriptor
    mIsReadable,     \* slot -> Socket::mIsReadable
    mIsWritable,     \* slot -> Socket::mIsWritable
    mIsNonBlocking,  \* slot -> Socket::mIsNonBlocking
    opened,          \* descriptors obtained from socket() or accept()
    closeCount,      \* descriptor -> number of close() calls on it
    statusFlags,     \* descriptor -> file status flags kept by the OS
    last,            \* the last operation: name, object, argument, outcome, system calls
    askedBlocking,   \* slot -> SetBlocking() was called on the object
    mPollList,       \* Poller::mPollList: sequence of [fd, events, revents]
    pc,              \* the poll-driven caller's next step
    rxq,             \* messages the peer sent that the connector has not received
    peerOpen,        \* the peer Connector has not been destroyed
    soError,         \* the error pending on the connected descriptor (SO_ERROR), 0: none
    addr             \* a LocalAddress object: mSize, sun_family, the string in sun_path

vars == <<live, mDescriptor, mIsReadable, mIsWritable, mIsNonBlocking,
          opened, closeCount, statusFlags, last, askedBlocking,
          mPollList, pc, rxq, peerOpen, soError, addr>>

sockVars == <<live, mDescriptor, mIsReadable, mIsWritable, mIsNonBlocking>>
osVars == <<opened, closeCount, statusFlags>>
ghostVars == <<askedBlocking>>
pollVars == <<mPollList>>
peerVars == <<rxq, peerOpen>>
kernelVars == <<soError>>
addrVars == <<addr>>

\* no LocalAddress object has been built; hi, lo, nul record the path that was
\* handed to the constructor
NoAddress ==
    [made |-> FALSE, mSize |-> 0, sun_family |-> 0, cstr |-> 0,
     hi |-> 0, lo |-> 0, nul |-> 0]

Last(op, s, arg, out, calls) ==
    [op |-> op, sock |-> s, arg |-> arg, kind |-> out.kind, v |-> out.v, calls |-> calls]

Init ==
    /\ live = [s \in Slots |-> "none"]
    /\ mDescriptor = [s \in Slots |-> sInvalidSocket]
    /\ mIsReadable = [s \in Slots |-> FALSE]
    /\ mIsWritable = [s \in Slots |-> FALSE]
    /\ mIsNonBlocking = [s \in Slots |-> FALSE]
    /\ opened = {}
    /\ closeCount = [f \in Fds |-> 0]
    /\ statusFlags = [f \in Fds |-> 0]
    /\ last = Last("init", 0, 0, Outcome("void", 0), <<>>)
    /\ askedBlocking = [s \in Slots |-> FALSE]
    /\ mPollList = <<>>
    /\ pc = "Construct"
    /\ rxq = 0
    /\ peerOpen = TRUE
    /\ soError = 0
    /\ addr = NoAddress

\* the descriptor the OS hands out next; descriptors are never handed out twice
FreshFd == CHOOSE f \in Fds \ opened : \A g \in Fds \ opened : f <= g
IsOpenFd(fd) == fd \in opened /\ closeCount[fd] = 0
\* a call on something that is no open descriptor fails with EBADF
OnFd(fd, r) == IF IsOpenFd(fd) THEN r ELSE Fail(EBADF)


Res(e, n) == IF e = 0 THEN Ok(n) ELSE Fail(e)
Void == Outcome("void", 0)
Raised(out) == out.kind \in {"system_error", "invalid_argument", "length_error"}

\* ------------------------------------------------------- Socket, pure parts
\* SetNonBlocking's two fcntl calls on a descriptor whose status flags are
\* `flags`; rg and rs are the raw results of F_GETFL and F_SETFL
SetNonBlocking(flags, rg, rs) ==
    LET g == Unwrap(SysCall(rg))
        st == Unwrap(SysCall(rs))
        want == IF HasBit(g.v, O_NONBLOCK) THEN g.v ELSE g.v + O_NONBLOCK
    IN  IF Raised(g)
        THEN [out |-> g, calls |-> <<Call("fcntl_getfl", rg)>>, flags |-> flags]
        ELSE IF Raised(st)
        THEN [out |-> st, flags |-> flags,
              calls |-> <<Call("fcntl_getfl", rg), Call("fcntl_setfl", rs)>>]
        ELSE [out |-> Void, flags |-> want,
              calls |-> <<Call("fcntl_getfl", rg), Call("fcntl_setfl", rs)>>]

\* SetBlocking's two fcntl calls
SetBlockingFlags(flags, rg, rs) ==
    LET g == Unwrap(SysCall(rg))
        st == Unwrap(SysCall(rs))
        want == IF HasBit(g.v, O_NONBLOCK) THEN g.v - O_NONBLOCK ELSE g.v
    IN  IF Raised(g)
        THEN [out |-> g, calls |-> <<Call("fcntl_getfl", rg)>>, flags |-> flags]
        ELSE IF Raised(st)
        THEN [out |-> st, flags |-> flags,
              calls |-> <<Call("fcntl_getfl", rg), Call("fcntl_setfl", rs)>>]
        ELSE [out |-> Void, flags |-> want,
              calls |-> <<Call("fcntl_getfl", rg), Call("fcntl_setfl", rs)>>]

\* the object a move construction builds from a source holding `desc`:
\* only mDescriptor is taken, the other members get their default initialisers
MovedInto(desc) ==
    [mDescriptor |-> desc, mIsReadable |-> FALSE, mIsWritable |-> FALSE,
     mIsNonBlocking |-> FALSE]

\* the descriptor a move construction leaves in its source
MovedFrom_KeepsDescriptor(desc) == desc

MovedFrom(desc) == sInvalidSocket

\* GetAndResetIsReadable / GetAndResetIsWritable on one cached flag
GetAndReset_NoReset(flag, nonBlocking) ==
    [ret |-> flag \/ ~nonBlocking, flag |-> flag]

GetAndReset_CacheOnly(flag, nonBlocking) ==
    [ret |-> flag, flag |-> FALSE]

GetAndReset_ReturnsAfterReset(flag, nonBlocking) ==
    [ret |-> FALSE \/ ~nonBlocking, flag |-> FALSE]

GetAndReset(flag, nonBlocking) ==
    [ret |-> flag \/ ~nonBlocking, flag |-> FALSE]

\* Update(res) on cached flags rd, wr; rgo is the raw result of the getsockopt
\* call GetError makes and soerr the SO_ERROR value it reads
Update_AssignsFlags(res, rd, wr, rgo, soerr) ==
    IF HasBit(res, POLLERR)
    THEN [out |-> IF IsError(SysCall(rgo)) THEN Unwrap(SysCall(rgo))
                  ELSE Outcome("system_error", soerr),
          rd |-> rd, wr |-> wr, calls |-> <<Call("getsockopt", rgo)>>]
    ELSE IF HasBit(res, POLLNVAL) \/ HasBit(res, POLLHUP)
    THEN [out |-> Outcome("bool", 0), rd |-> rd, wr |-> wr, calls |-> <<>>]
    ELSE [out |-> Outcome("bool", 1), calls |-> <<>>,
          rd |-> HasBit(res, POLLIN), wr |-> HasBit(res, POLLOUT)]

Update_ClosedFirst(res, rd, wr, rgo, soerr) ==
    IF HasBit(res, POLLNVAL) \/ HasBit(res, POLLHUP)
    THEN [out |-> Outcome("bool", 0), rd |-> rd, wr |-> wr, calls |-> <<>>]
    ELSE IF HasBit(res, POLLERR)
    THEN [out |-> IF IsError(SysCall(rgo)) THEN Unwrap(SysCall(rgo))
                  ELSE Outcome("system_error", soerr),
          rd |-> rd, wr |-> wr, calls |-> <<Call("getsockopt", rgo)>>]
    ELSE [out |-> Outcome("bool", 1), calls |-> <<>>,
          rd |-> rd \/ HasBit(res, POLLIN), wr |-> wr \/ HasBit(res, POLLOUT)]

UpdateFn(res, rd, wr, rgo, soerr) ==
    IF HasBit(res, POLLERR)
    THEN [out |-> IF IsError(SysCall(rgo)) THEN Unwrap(SysCall(rgo))
                  ELSE Outcome("system_error", soerr),
          rd |-> rd, wr |-> wr, calls |-> <<Call("getsockopt", rgo)>>]
    ELSE IF HasBit(res, POLLNVAL) \/ HasBit(res, POLLHUP)
    THEN [out |-> Outcome("bool", 0), rd |-> rd, wr |-> wr, calls |-> <<>>]
    ELSE [out |-> Outcome("bool", 1), calls |-> <<>>,
          rd |-> rd \/ HasBit(res, POLLIN), wr |-> wr \/ HasBit(res, POLLOUT)]

\* ------------------------------------------------------------ LocalAddress
\* LocalAddress(path) for a path of `len` bytes: the logical size, or the failure
LocalAddressCtor(len) ==
    LET mSize == sPathOffset + len + 1
    IN  IF len = 0 THEN Outcome("invalid_argument", 0)
        ELSE IF mSize > sMaxSize THEN Outcome("length_error", 0)
        ELSE Outcome("void", mSize)

\* A path of any length: its length is hi * HalfWord + lo, and nul is the
\* position (from 1) of its first NUL byte, 0 when it has none.
\* mSize(sPathOffset + path.size() + 1): the sum converted to the 32 bit
\* socklen_t, as the pair of its half words
TruncatedSize(hi, lo) ==
    LET s == sPathOffset + lo + 1
    IN  [hi |-> (hi + s \div HalfWord) % HalfWord, lo |-> s % HalfWord]

\* bytes of sun_path
PathBytes == sMaxSize - sPathOffset

\* what copying more bytes than sun_path holds can produce (undefined behaviour)
UndefinedCopies == {"crash", "overrun"}

\* LocalAddress(path): the outcome and the object built
LocalAddressPath(hi, lo, nul, ub) ==
    LET m == TruncatedSize(hi, lo)
        arg == [NoAddress EXCEPT !.hi = hi, !.lo = lo, !.nul = nul]
    IN  IF hi = 0 /\ lo = 0
        THEN [out |-> Outcome("invalid_argument", 0), obj |-> arg]
        ELSE IF m.hi > 0 \/ m.lo > sMaxSize
        THEN [out |-> Outcome("length_error", 0), obj |-> arg]
        ELSE IF hi = 0 /\ lo < PathBytes
        \* strncpy stops at the first NUL of the path and pads with NUL
        THEN [out |-> Outcome("void", m.lo),
              obj |-> [arg EXCEPT !.made = TRUE, !.mSize = m.lo, !.sun_family = AF_UNIX,
                                  !.cstr = IF nul # 0 THEN nul - 1 ELSE lo]]
        \* the copy and the terminator are written beyond sun_path
        ELSE IF ub = "crash"
        THEN [out |-> Outcome("undefined", 0), obj |-> arg]
        ELSE [out |-> Outcome("void", m.lo),
              obj |-> [arg EXCEPT !.made = TRUE, !.mSize = m.lo, !.sun_family = AF_UNIX,
                                  !.cstr = PathBytes]]

\* LocalAddress(): the empty address
LocalAddressEmpty == [NoAddress EXCEPT !.made = TRUE, !.mSize = sMaxSize]

\* ------------------------------------------------ constructors, pure parts
\* A constructor run: out is what the caller gets, fd the descriptor obtained
\* (or sInvalidSocket), closed whether a destructor released it, ok whether
\* the object exists afterwards.
Built(out, calls, fd, flags, closed, ok) ==
    [out |-> out, calls |-> calls, fd |-> fd, flags |-> flags,
     closed |-> closed, ok |-> ok]

CloseCall == Call("close", Ok(0))

\* Socket(domain, type, protocol): rsock is the raw result of socket()
SocketOpenCtor(rsock, rg, rs) ==
    LET o == Unwrap(SysCall(rsock))
        nb == SetNonBlocking(0, rg, rs)
    IN  IF Raised(o)
        THEN Built(o, <<Call("socket", rsock)>>, sInvalidSocket, 0, FALSE, FALSE)
        ELSE IF Raised(nb.out)
        \* the constructor throws: no destructor runs for the unfinished object
        THEN Built(nb.out, <<Call("socket", rsock)>> \o nb.calls, o.v, nb.flags, FALSE, FALSE)
        ELSE Built(Void, <<Call("socket", rsock)>> \o nb.calls, o.v, nb.flags, FALSE, TRUE)

\* Socket(Descriptor)
SocketAdoptCtor(descriptor, rg, rs) ==
    LET nb == SetNonBlocking(0, rg, rs)
    IN  IF descriptor = sInvalidSocket
        THEN Built(Outcome("invalid_argument", 0), <<>>, sInvalidSocket, 0, FALSE, FALSE)
        ELSE IF Raised(nb.out)
        THEN Built(nb.out, nb.calls, descriptor, nb.flags, FALSE, FALSE)
        ELSE Built(Void, nb.calls, descriptor, nb.flags, FALSE, TRUE)

\* a later constructor step failed: the finished Socket base is destroyed
Unwound(b, out, calls) ==
    Built(out, b.calls \o calls \o <<CloseCall>>, b.fd, b.flags, TRUE, FALSE)

\* LocalSocket(path)
LocalSocketPathCtor(len, rsock, rg, rs) ==
    LET b == SocketOpenCtor(rsock, rg, rs)
        a == LocalAddressCtor(len)
    IN  IF ~b.ok THEN b
        ELSE IF Raised(a) THEN Unwound(b, a, <<>>)
        ELSE b

\* LocalSocket(descriptor, address): family is the sun_family of the address
LocalSocketAdoptCtor(descriptor, family, rg, rs) ==
    LET b == SocketAdoptCtor(descriptor, rg, rs)
    IN  IF ~b.ok THEN b
        ELSE IF family # AF_UNIX THEN Unwound(b, Outcome("invalid_argument", 0), <<>>)
        ELSE b

\* LocalConnectorSocket(path): rconn is the raw result of connect()
ConnectorCtor(len, rsock, rg, rs, rconn) ==
    LET b == LocalSocketPathCtor(len, rsock, rg, rs)
        c == Unwrap(SysCall(rconn))
    IN  IF ~b.ok THEN b
        ELSE IF Raised(c) THEN Unwound(b, c, <<Call("connect", rconn)>>)
        ELSE Built(Void, b.calls \o <<Call("connect", rconn)>>, b.fd, b.flags, FALSE, TRUE)

\* LocalAcceptorSocket(path, backlog)
AcceptorCtor_BindBeforeUnlink(len, rsock, rg, rs, runlink, rbind, rlisten) ==
    LET b == LocalSocketPathCtor(len, rsock, rg, rs)
        bd == Unwrap(SysCall(rbind))
        ls == Unwrap(SysCall(rlisten))
        u == <<Call("unlink", runlink)>>
    IN  IF ~b.ok THEN b
        ELSE IF Raised(bd) THEN Unwound(b, bd, <<Call("bind", rbind)>>)
        ELSE IF Raised(ls)
        THEN Unwound(b, ls, <<Call("bind", rbind)>> \o u \o <<Call("listen", rlisten)>>)
        ELSE Built(Void, b.calls \o <<Call("bind", rbind)>> \o u \o <<Call("listen", rlisten)>>,
                   b.fd, b.flags, FALSE, TRUE)

AcceptorCtor(len, rsock, rg, rs, runlink, rbind, rlisten) ==
    LET b == LocalSocketPathCtor(len, rsock, rg, rs)
        bd == Unwrap(SysCall(rbind))
        ls == Unwrap(SysCall(rlisten))
        u == <<Call("unlink", runlink)>>
    IN  IF ~b.ok THEN b
        ELSE IF Raised(bd) THEN Unwound(b, bd, u \o <<Call("bind", rbind)>>)
        ELSE IF Raised(ls)
        THEN Unwound(b, ls, u \o <<Call("bind", rbind), Call("listen", rlisten)>>)
        ELSE Built(Void, b.calls \o u \o <<Call("bind", rbind), Call("listen", rlisten)>>,
                   b.fd, b.flags, FALSE, TRUE)

\* ---------------------------------------------------------------- actions
NoGhost(s) == askedBlocking' = [askedBlocking EXCEPT ![s] = FALSE]

\* the state a constructor run `b` leaves: the object in slot s when it exists,
\* the descriptor obtained, and the close a failed construction made
Construct(op, kind, s, arg, b) ==
    /\ live' = IF b.ok THEN [live EXCEPT ![s] = kind] ELSE live
    /\ mDescriptor' = IF b.ok THEN [mDescriptor EXCEPT ![s] = b.fd] ELSE mDescriptor
    /\ mIsNonBlocking' = IF b.ok THEN [mIsNonBlocking EXCEPT ![s] = TRUE] ELSE mIsNonBlocking
    /\ UNCHANGED <<mIsReadable, mIsWritable>>
    /\ opened' = IF b.fd # sInvalidSocket THEN opened \cup {b.fd} ELSE opened
    /\ closeCount' = IF b.closed THEN [closeCount EXCEPT ![b.fd] = @ + 1] ELSE closeCount
    /\ statusFlags' = IF b.fd # sInvalidSocket
                      THEN [statusFlags EXCEPT ![b.fd] = b.flags] ELSE statusFlags
    /\ last' = Last(op, s, arg, b.out, b.calls)
    /\ UNCHANGED ghostVars

\* c = LocalConnectorSocket(path), path of len bytes
ConstructConnector(s, len, esock, eg, es, econn) ==
    /\ live[s] = "none"
    /\ esock = 0 => opened # Fds
    /\ Construct("ConstructConnector", "Connector", s, len,
                 ConnectorCtor(len, Res(esock, FreshFd), Res(eg, 0), Res(es, 0),
                               Res(econn, 0)))

\* a = LocalAcceptorSocket(path, backlog)
ConstructAcceptor(s, len, esock, eg, es, eunlink, ebind, elisten) ==
    /\ live[s] = "none"
    /\ esock = 0 => opened # Fds
    /\ Construct("ConstructAcceptor", "Acceptor", s, len,
                 AcceptorCtor(len, Res(esock, FreshFd), Res(eg, 0), Res(es, 0),
                              Res(eunlink, 0), Res(ebind, 0), Res(elisten, 0)))

\* ~Socket()
Destroy(s) ==
    /\ live[s] # "none"
    /\ live' = [live EXCEPT ![s] = "none"]
    /\ closeCount' = IF mDescriptor[s] # sInvalidSocket
                     THEN [closeCount EXCEPT ![mDescriptor[s]] = @ + 1] ELSE closeCount
    /\ mDescriptor' = [mDescriptor EXCEPT ![s] = sInvalidSocket]
    /\ mIsReadable' = [mIsReadable EXCEPT ![s] = FALSE]
    /\ mIsWritable' = [mIsWritable EXCEPT ![s] = FALSE]
    /\ mIsNonBlocking' = [mIsNonBlocking EXCEPT ![s] = FALSE]
    /\ UNCHANGED <<opened, statusFlags>>
    /\ last' = Last("Destroy", s, mDescriptor[s], Void,
                    IF mDescriptor[s] # sInvalidSocket THEN <<CloseCall>> ELSE <<>>)
    /\ NoGhost(s)

\* Socket dst(std::move(src))
MoveConstruct(dst, src) ==
    /\ live[src] # "none" /\ live[dst] = "none"
    /\ live' = [live EXCEPT ![dst] = live[src]]
    /\ mDescriptor' = [mDescriptor EXCEPT ![dst] = MovedInto(mDescriptor[src]).mDescriptor,
                                          ![src] = MovedFrom(mDescriptor[src])]
    /\ mIsReadable' = [mIsReadable EXCEPT ![dst] = MovedInto(mDescriptor[src]).mIsReadable]
    /\ mIsWritable' = [mIsWritable EXCEPT ![dst] = MovedInto(mDescriptor[src]).mIsWritable]
    /\ mIsNonBlocking' =
           [mIsNonBlocking EXCEPT ![dst] = MovedInto(mDescriptor[src]).mIsNonBlocking]
    /\ UNCHANGED osVars
    /\ last' = Last("MoveConstruct", dst, src, Void, <<>>)
    /\ UNCHANGED askedBlocking

\* dst = std::move(src): the descriptors are swapped, nothing else is touched
MoveAssign(dst, src) ==
    /\ live[src] # "none" /\ live[dst] = live[src] /\ dst # src
    /\ mDescriptor' = [mDescriptor EXCEPT ![dst] = mDescriptor[src],
                                          ![src] = mDescriptor[dst]]
    /\ UNCHANGED <<live, mIsReadable, mIsWritable, mIsNonBlocking>>
    /\ UNCHANGED osVars
    /\ last' = Last("MoveAssign", dst, src, Void, <<>>)
    /\ UNCHANGED askedBlocking

\* s.SetBlocking()
SetBlocking(s, eg, es) ==
    /\ live[s] # "none"
    /\ LET fd == mDescriptor[s]
           b == IF IsOpenFd(fd)
                THEN SetBlockingFlags(statusFlags[fd], Res(eg, statusFlags[fd]), Res(es, 0))
                ELSE SetBlockingFlags(0, Fail(EBADF), Fail(EBADF))
       IN  /\ statusFlags' = IF IsOpenFd(fd) THEN [statusFlags EXCEPT ![fd] = b.flags]
                             ELSE statusFlags
           /\ last' = Last("SetBlocking", s, 0, b.out, b.calls)
    /\ mIsNonBlocking' = [mIsNonBlocking EXCEPT ![s] = FALSE]
    /\ UNCHANGED <<live, mDescriptor, mIsReadable, mIsWritable, opened, closeCount>>
    /\ askedBlocking' = [askedBlocking EXCEPT ![s] = TRUE]

\* s.GetAndResetIsReadable()
GetAndResetIsReadable(s) ==
    /\ live[s] # "none"
    /\ LET g == GetAndReset(mIsReadable[s], mIsNonBlocking[s])
       IN  /\ mIsReadable' = [mIsReadable EXCEPT ![s] = g.flag]
           \* arg: 1 when the flag was cached at the call, 2 when the call comes
           \* right after such a call of the same operation on the same object
           /\ last' = Last("GetAndResetIsReadable", s,
                           IF last.op = "GetAndResetIsReadable" /\ last.sock = s /\ last.arg = 1
                           THEN 2
                           ELSE IF mIsReadable[s] THEN 1 ELSE 0,
                           Outcome("bool", IF g.ret THEN 1 ELSE 0), <<>>)
    /\ UNCHANGED <<live, mDescriptor, mIsWritable, mIsNonBlocking>>
    /\ UNCHANGED osVars
    /\ UNCHANGED askedBlocking

\* s.GetAndResetIsWritable()
GetAndResetIsWritable(s) ==
    /\ live[s] # "none"
    /\ LET g == GetAndReset(mIsWritable[s], mIsNonBlocking[s])
       IN  /\ mIsWritable' = [mIsWritable EXCEPT ![s] = g.flag]
           \* arg: 1 when the flag was cached at the call, 2 when the call comes
           \* right after such a call of the same operation on the same object
           /\ last' = Last("GetAndResetIsWritable", s,
                           IF last.op = "GetAndResetIsWritable" /\ last.sock = s /\ last.arg = 1
                           THEN 2
                           ELSE IF mIsWritable[s] THEN 1 ELSE 0,
                           Outcome("bool", IF g.ret THEN 1 ELSE 0), <<>>)
    /\ UNCHANGED <<live, mDescriptor, mIsReadable, mIsNonBlocking>>
    /\ UNCHANGED osVars
    /\ UNCHANGED askedBlocking

\* s.Update(res)
Update(s, res, ego, soerr) ==
    /\ live[s] # "none"
    /\ LET rgo == OnFd(mDescriptor[s], Res(ego, 0))
           u == UpdateFn(res, mIsReadable[s], mIsWritable[s], rgo, soerr)
       IN  /\ mIsReadable' = [mIsReadable EXCEPT ![s] = u.rd]
           /\ mIsWritable' = [mIsWritable EXCEPT ![s] = u.wr]
           /\ last' = Last("Update", s, res, u.out, u.calls)
    /\ UNCHANGED <<live, mDescriptor, mIsNonBlocking, askedBlocking>>
    /\ UNCHANGED osVars

\* the optional<int> TrySend/TryRecv return: gate, then the system call
Gated(gateOpen, name, r) ==
    LET b == SysCallBlocking(r)
    IN  IF ~gateOpen THEN [out |-> Outcome("nullopt", 0), calls |-> <<>>]
        ELSE IF ~b.has THEN [out |-> Outcome("nullopt", 0), calls |-> <<Call(name, r)>>]
        ELSE [out |-> Unwrap(b.sr), calls |-> <<Call(name, r)>>]

\* c.TrySend(buf, MaxBytes): r is the raw result of send()
TrySend(s, r) ==
    /\ live[s] = "Connector"
    /\ LET g == GetAndReset(mIsWritable[s], mIsNonBlocking[s])
           t == Gated(g.ret, "send", OnFd(mDescriptor[s], r))
       IN  /\ mIsWritable' = [mIsWritable EXCEPT ![s] = g.flag]
           /\ last' = Last("TrySend", s, MaxBytes, t.out, t.calls)
    /\ UNCHANGED <<live, mDescriptor, mIsReadable, mIsNonBlocking>>
    /\ UNCHANGED osVars
    /\ UNCHANGED askedBlocking

\* c.TryRecv(buf, MaxBytes): r is the raw result of recv()
TryRecv(s, r) ==
    /\ live[s] = "Connector"
    /\ LET g == GetAndReset(mIsReadable[s], mIsNonBlocking[s])
           t == Gated(g.ret, "recv", OnFd(mDescriptor[s], r))
       IN  /\ mIsReadable' = [mIsReadable EXCEPT ![s] = g.flag]
           /\ last' = Last("TryRecv", s, MaxBytes, t.out, t.calls)
    /\ UNCHANGED <<live, mDescriptor, mIsWritable, mIsNonBlocking>>
    /\ UNCHANGED osVars
    /\ UNCHANGED askedBlocking

\* a.Accept(): eacc is accept()'s errno (0: it returns a new descriptor), family
\* the sun_family it wrote, n the slot that takes the Connector in the optional
Accept(a, n, eacc, family, eg, es) ==
    /\ live[a] = "Acceptor" /\ live[n] = "none"
    /\ eacc = 0 => opened # Fds
    /\ LET g == GetAndReset(mIsReadable[a], mIsNonBlocking[a])
           r == OnFd(mDescriptor[a], Res(eacc, FreshFd))
           t == Gated(g.ret, "accept", r)
           \* LocalConnectorSocket(desc, address), a temporary
           b == LocalSocketAdoptCtor(t.out.v, family, Res(eg, 0), Res(es, 0))
           got == t.out.kind = "value"
           \* the temporary is moved into the optional and destroyed
           m == MovedInto(b.fd)
           tempClosed == MovedFrom(b.fd) # sInvalidSocket
       IN  /\ mIsReadable' = [mIsReadable EXCEPT ![a] = g.flag, ![n] = m.mIsReadable]
           /\ live' = IF got /\ b.ok THEN [live EXCEPT ![n] = "Connector"] ELSE live
           /\ mDescriptor' = IF got /\ b.ok
                             THEN [mDescriptor EXCEPT ![n] = m.mDescriptor] ELSE mDescriptor
           /\ opened' = IF got THEN opened \cup {t.out.v} ELSE opened
           /\ statusFlags' = IF got THEN [statusFlags EXCEPT ![t.out.v] = b.flags]
                             ELSE statusFlags
           /\ closeCount' =
                  IF got /\ b.closed THEN [closeCount EXCEPT ![b.fd] = @ + 1]
                  ELSE IF got /\ b.ok /\ tempClosed THEN [closeCount EXCEPT ![b.fd] = @ + 1]
                  ELSE closeCount
           /\ last' = IF ~got THEN Last("Accept", a, family, t.out, t.calls)
                      ELSE IF ~b.ok THEN Last("Accept", a, family, b.out, t.calls \o b.calls)
                      ELSE Last("Accept", a, family, Outcome("connector", n),
                                t.calls \o b.calls \o
                                (IF tempClosed THEN <<CloseCall>> ELSE <<>>))
    /\ UNCHANGED <<mIsWritable, mIsNonBlocking>>
    /\ UNCHANGED askedBlocking

\* ------------------------------------------------------------ environment
\* errno values after a failing send/recv/accept/connect, and after the others
Errnos == {EAGAIN, ECONNRESET}
SetupErrnos == {EACCES}
SoErrors == {0, ECONNRESET}
Families == {0, AF_UNIX}
SendResults == {Ok(n) : n \in 0..MaxBytes} \cup {Fail(e) : e \in Errnos}
RecvResults == {Ok(n) : n \in 0..MaxBytes} \cup {Fail(e) : e \in Errnos}
\* events of each kind Update tells apart
SomeEvents == {POLLIN, POLLOUT, POLLHUP, POLLIN + POLLHUP, POLLERR + POLLIN}
\* the errno (0: success) of each of n system calls in a row, at most one failing:
\* what follows a failure is never issued
Runs(n, E) ==
    {[i \in 1..n |-> 0]} \cup
    {[i \in 1..n |-> IF i = k THEN e ELSE 0] : k \in 1..n, e \in E}
AllOk(f) == \A i \in DOMAIN f : f[i] = 0
\* a new object takes the lowest free slot
FreeSlot(s) == live[s] = "none" /\ \A t \in Slots : t < s => live[t] # "none"
\* the caller uses an object only while it holds a descriptor
Held(s) == mDescriptor[s] # sInvalidSocket

ConstructStep ==
    \/ \E s \in Slots, len \in PathLens, f \in Runs(3, SetupErrnos), econn \in {0} \cup Errnos :
          /\ FreeSlot(s)
          /\ ~AllOk(f) => len = 1
          /\ (len # 1 \/ ~AllOk(f)) => econn = 0
          /\ ConstructConnector(s, len, f[1], f[2], f[3], econn)
    \/ \E s \in Slots, len \in PathLens, f \in Runs(5, SetupErrnos), eunlink \in {0, EACCES} :
          /\ FreeSlot(s)
          /\ ~AllOk(f) => len = 1
          /\ (len # 1 \/ f[1] # 0 \/ f[2] # 0 \/ f[3] # 0) => (f[4] = 0 /\ f[5] = 0 /\ eunlink = 0)
          /\ ConstructAcceptor(s, len, f[1], f[2], f[3], eunlink, f[4], f[5])

AcceptStep ==
    \E a, n \in Slots, eacc \in {0} \cup Errnos, family \in Families,
       f \in Runs(2, SetupErrnos) :
       /\ FreeSlot(n)
       /\ Held(a)
       /\ eacc # 0 => (family = AF_UNIX /\ AllOk(f))
       /\ ~AllOk(f) => family = AF_UNIX
       /\ Accept(a, n, eacc, family, f[1], f[2])

\* the poll list and the peer are left alone by the Socket operations
NoPoll == UNCHANGED <<mPollList, pc, rxq, peerOpen, soError, addr>>

\* The operations on Socket objects in use: construction, move construction,
\* Accept, and the readiness and transfer operations on the objects that hold a
\* descriptor.
Next ==
    \/ ConstructStep /\ NoPoll
    \/ \E dst, src \in Slots : FreeSlot(dst) /\ MoveConstruct(dst, src) /\ NoPoll
    \/ \E s \in Slots, f \in Runs(2, SetupErrnos) :
          Held(s) /\ SetBlocking(s, f[1], f[2]) /\ NoPoll
    \/ \E s \in Slots : Held(s) /\ GetAndResetIsReadable(s) /\ NoPoll
    \/ \E s \in Slots : Held(s) /\ GetAndResetIsWritable(s) /\ NoPoll
    \/ \E s \in Slots, res \in SomeEvents :
          Held(s) /\ Update(s, res, 0, ECONNRESET) /\ NoPoll
    \/ \E s \in Slots, r \in SendResults : Held(s) /\ TrySend(s, r) /\ NoPoll
    \/ \E s \in Slots, r \in RecvResults : Held(s) /\ TryRecv(s, r) /\ NoPoll
    \/ AcceptStep /\ NoPoll

Spec == Init /\ [][Next]_vars

\* The operations that create, move and destroy Socket objects; the acceptor's
\* readable edge is absorbed so that Accept can adopt descriptors.
OwnNext ==
    \/ ConstructStep /\ NoPoll
    \/ \E s \in Slots : Destroy(s) /\ NoPoll
    \/ \E dst, src \in Slots : FreeSlot(dst) /\ MoveConstruct(dst, src) /\ NoPoll
    \/ \E dst, src \in Slots : MoveAssign(dst, src) /\ NoPoll
    \/ \E s \in Slots : live[s] = "Acceptor" /\ Held(s)
                        /\ Update(s, POLLIN, 0, ECONNRESET) /\ NoPoll
    \/ AcceptStep /\ NoPoll

OwnSpec == Init /\ [][OwnNext]_vars

\* One Socket object: Update on every event bitmask and every outcome of
\* GetError, the two gates, and SetBlocking.
ObjectNext ==
    \/ ConstructConnector(1, 1, 0, 0, 0, 0) /\ NoPoll
    \/ \E res \in Events, ego \in {0, EACCES}, soerr \in SoErrors :
          /\ (~HasBit(res, POLLERR) \/ ego # 0) => soerr = ECONNRESET
          /\ ~HasBit(res, POLLERR) => ego = 0
          /\ Update(1, res, ego, soerr) /\ NoPoll
    \/ GetAndResetIsReadable(1) /\ NoPoll
    \/ GetAndResetIsWritable(1) /\ NoPoll
    \/ \E f \in Runs(2, SetupErrnos) : SetBlocking(1, f[1], f[2]) /\ NoPoll

ObjectSpec == Init /\ [][ObjectNext]_vars

\* Connectors built in place by their constructor: the readiness operations,
\* SetBlocking and the gated transfers on them, without moves and destruction.
ModeNext ==
    \/ \E s \in Slots : FreeSlot(s) /\ ConstructConnector(s, 1, 0, 0, 0, 0) /\ NoPoll
    \/ \E s \in Slots, f \in Runs(2, SetupErrnos) :
          Held(s) /\ SetBlocking(s, f[1], f[2]) /\ NoPoll
    \/ \E s \in Slots : Held(s) /\ GetAndResetIsReadable(s) /\ NoPoll
    \/ \E s \in Slots : Held(s) /\ GetAndResetIsWritable(s) /\ NoPoll
    \/ \E s \in Slots, res \in SomeEvents :
          Held(s) /\ Update(s, res, 0, ECONNRESET) /\ NoPoll
    \/ \E s \in Slots, r \in {Ok(MaxBytes), Fail(EAGAIN)} : Held(s) /\ TrySend(s, r) /\ NoPoll
    \/ \E s \in Slots, r \in {Ok(MaxBytes), Fail(EAGAIN)} : Held(s) /\ TryRecv(s, r) /\ NoPoll

ModeSpec == Init /\ [][ModeNext]_vars

\* ------------------------------------------------------------------ Poller
Readable == POLLIN
Writable == POLLOUT

\* poller.AddConnector(descriptor)
AddConnector(descriptor) ==
    /\ mPollList' = Append(mPollList, [fd |-> descriptor, events |-> Readable + Writable,
                                       revents |-> 0])
    /\ last' = Last("AddConnector", 0, descriptor, Void, <<>>)

\* poller.Poll(timeoutMs): rp is the raw result of poll(), revs the revents the
\* kernel wrote into the entries when it succeeded
Poll(rp, revs) ==
    LET o == Unwrap(SysCall(rp))
    IN  /\ mPollList' = IF Raised(o) THEN mPollList
                        ELSE [i \in DOMAIN mPollList |->
                                 [mPollList[i] EXCEPT !.revents = revs[i]]]
        /\ last' = Last("Poll", 0, 0, IF Raised(o) THEN o ELSE Void, <<Call("poll", rp)>>)

\* poller.At(idx), idx counted from 0
At(idx) == mPollList[idx + 1].revents

\* poller.AddAcceptor(descriptor)
AddAcceptor_AsConnector(descriptor) ==
    /\ mPollList' = Append(mPollList, [fd |-> descriptor, events |-> Readable + Writable,
                                       revents |-> 0])
    /\ last' = Last("AddAcceptor", 0, descriptor, Void, <<>>)

AddAcceptor(descriptor) ==
    /\ mPollList' = Append(mPollList, [fd |-> descriptor, events |-> Readable,
                                       revents |-> 0])
    /\ last' = Last("AddAcceptor", 0, descriptor, Void, <<>>)

\* mPollList.erase(mPollList.begin() + idx) for 0 <= idx < size
RemoveFn_Last(list, idx) == SubSeq(list, 1, Len(list) - 1)

RemoveFn(list, idx) ==
    [i \in 1..(Len(list) - 1) |-> IF i <= idx THEN list[i] ELSE list[i + 1]]

\* what erase() may leave when idx is no index of the list (undefined behaviour)
UndefinedErase(list) ==
    {list} \cup (IF list = <<>> THEN {} ELSE {SubSeq(list, 1, Len(list) - 1)})

\* poller.Remove(idx)
Remove(idx) ==
    /\ IF 0 <= idx /\ idx < Len(mPollList)
       THEN /\ mPollList' = RemoveFn(mPollList, idx)
            /\ last' = Last("Remove", 0, idx, Void, <<>>)
       ELSE /\ mPollList' \in UndefinedErase(mPollList)
            /\ last' = Last("Remove", 0, idx, Outcome("undefined", 0), <<>>)

\* the caller removes the indices of I one by one, from the highest to the lowest
RECURSIVE RemoveDescending(_, _)
RemoveDescending(list, I) ==
    IF I = {} THEN list
    ELSE LET top == CHOOSE i \in I : \A j \in I : j <= i
         IN  RemoveDescending(RemoveFn(list, top), I \ {top})

\* the set of indices as a bit mask, for the record of the last operation
RECURSIVE IndexMask(_)
IndexMask(I) ==
    IF I = {} THEN 0
    ELSE LET i == CHOOSE x \in I : TRUE IN 2^i + IndexMask(I \ {i})

RemoveBatch(I) ==
    /\ I # {} /\ \A i \in I : 0 <= i /\ i < Len(mPollList)
    /\ mPollList' = RemoveDescending(mPollList, I)
    /\ last' = Last("RemoveBatch", 0, IndexMask(I), Void, <<>>)

\* poller.Clear()
Clear ==
    /\ mPollList' = <<>>
    /\ last' = Last("Clear", 0, 0, Void, <<>>)

\* poller.GetSize()
GetSize ==
    /\ last' = Last("GetSize", 0, 0, Outcome("value", Len(mPollList)), <<>>)
    /\ UNCHANGED mPollList

\* poller.At(idx): vector::at checks the index
AtChecked(idx) ==
    /\ last' = IF 0 <= idx /\ idx < Len(mPollList)
               THEN Last("At", 0, idx, Outcome("value", At(idx)), <<>>)
               ELSE Last("At", 0, idx, Outcome("out_of_range", 0), <<>>)
    /\ UNCHANGED mPollList

\* the events poll() reports for an entry when the descriptors are ready for `ready`
Reported(entry, ready) ==
    (IF HasBit(entry.events, POLLIN) /\ HasBit(ready, POLLIN) THEN POLLIN ELSE 0)
    + (IF HasBit(entry.events, POLLOUT) /\ HasBit(ready, POLLOUT) THEN POLLOUT ELSE 0)

PollErrnos == {EINTR, ENOMEM}
ReadySets == {0, POLLIN, POLLIN + POLLOUT}

\* The Poller on its own: descriptors are registered, removed and polled.
NoSocket == UNCHANGED <<sockVars, osVars, ghostVars, pc, rxq, peerOpen, soError, addr>>

PollerNext ==
    \/ \E d \in Fds : Len(mPollList) < MaxList /\ AddAcceptor(d) /\ NoSocket
    \/ \E d \in Fds : Len(mPollList) < MaxList /\ AddConnector(d) /\ NoSocket
    \/ \E idx \in 0..MaxList : idx <= Len(mPollList) /\ Remove(idx) /\ NoSocket
    \/ \E I \in SUBSET (0..(MaxList - 1)) : Cardinality(I) >= 2 /\ RemoveBatch(I) /\ NoSocket
    \/ Clear /\ NoSocket
    \/ GetSize /\ NoSocket
    \/ \E idx \in 0..MaxList : idx <= Len(mPollList) /\ AtChecked(idx) /\ NoSocket
    \/ \E e \in {0} \cup PollErrnos, ready \in ReadySets :
          /\ e # 0 => ready = 0
          /\ LET revs == [i \in DOMAIN mPollList |-> Reported(mPollList[i], ready)]
                 n == Cardinality({i \in DOMAIN mPollList : revs[i] # 0})
             IN  Poll(Res(e, n), revs)
          /\ NoSocket

PollerSpec == Init /\ [][PollerNext]_vars

\* -------------------------------------------- the peer and the kernel's view
\* The connector in slot 1 is connected to a peer Connector of another
\* process; rxq counts the messages queued for slot 1.
\* revents poll() reports for the connected descriptor
KernelRevents ==
    (IF rxq > 0 \/ ~peerOpen THEN POLLIN ELSE 0)
    + (IF peerOpen THEN POLLOUT ELSE 0)
    + (IF ~peerOpen THEN POLLHUP ELSE 0)
    + (IF soError # 0 THEN POLLERR ELSE 0)

\* what recv() returns on the connected descriptor: the pending error if there
\* is one, else the next message, end of data once the peer is gone and the
\* queue is drained, would-block otherwise
KernelRecv ==
    IF soError # 0 THEN Fail(soError)
    ELSE IF rxq > 0 THEN Ok(1) ELSE IF ~peerOpen THEN Ok(0) ELSE Fail(EAGAIN)

\* the poll-driven cycle {Poll, Update(At(i)), TryRecv} on one connector
CycleConstruct ==
    /\ pc = "Construct"
    /\ ConstructConnector(1, 1, 0, 0, 0, 0)
    /\ pc' = "AddConnector"
    /\ UNCHANGED <<mPollList, rxq, peerOpen, soError, addr>>

CycleAdd ==
    /\ pc = "AddConnector"
    /\ AddConnector(mDescriptor[1])
    /\ pc' = "Poll"
    /\ UNCHANGED <<sockVars, osVars, ghostVars, rxq, peerOpen, soError, addr>>

CyclePoll ==
    /\ pc = "Poll"
    /\ Poll(Ok(IF KernelRevents = 0 THEN 0 ELSE 1), <<KernelRevents>>)
    /\ pc' = "Update"
    /\ UNCHANGED <<sockVars, osVars, ghostVars, rxq, peerOpen, soError, addr>>

CycleUpdate ==
    /\ pc = "Update"
    /\ Update(1, At(0), 0, ECONNRESET)
    /\ pc' = "TryRecv"
    /\ UNCHANGED <<mPollList, rxq, peerOpen, soError, addr>>

CycleTryRecv ==
    /\ pc = "TryRecv"
    /\ TryRecv(1, KernelRecv)
    \* a message leaves the queue when recv() was issued
    /\ rxq' = IF last'.calls # <<>> /\ rxq > 0 THEN rxq - 1 ELSE rxq
    /\ pc' = "Poll"
    /\ UNCHANGED <<mPollList, peerOpen, soError, addr>>

\* the peer sends one message
PeerSend ==
    /\ pc \notin {"Construct"} /\ peerOpen /\ rxq < MaxMsgs
    /\ rxq' = rxq + 1
    /\ UNCHANGED <<sockVars, osVars, ghostVars, last, mPollList, pc, peerOpen, soError, addr>>

\* the peer Connector is destroyed
PeerDestroy ==
    /\ pc \notin {"Construct"} /\ peerOpen
    /\ peerOpen' = FALSE
    /\ UNCHANGED <<sockVars, osVars, ghostVars, last, mPollList, pc, rxq, soError, addr>>

CycleStep == CycleConstruct \/ CycleAdd \/ CyclePoll \/ CycleUpdate \/ CycleTryRecv

CycleNext ==
    \/ CycleConstruct
    \/ CycleAdd
    \/ CyclePoll
    \/ CycleUpdate
    \/ CycleTryRecv
    \/ PeerSend
    \/ PeerDestroy

\* the caller's loop keeps running; the peer may stop at any time
CycleSpec == Init /\ [][CycleNext]_vars /\ WF_vars(CycleStep)

\* ------------------------------------------- errors pending on a descriptor
\* The caller of the cycle on the connector of slot 1, once it is registered:
\* Poll, Update(At(0)) and TryRecv in any order and any number of times.
Registered == pc \notin {"Construct", "AddConnector"}

\* poller.Poll(timeoutMs): a signal may interrupt the wait
ErrPoll ==
    /\ Registered
    /\ \E e \in {0, EINTR} :
          Poll(IF e # 0 THEN Fail(e) ELSE Ok(IF KernelRevents = 0 THEN 0 ELSE 1),
               <<KernelRevents>>)
    /\ UNCHANGED <<sockVars, osVars, ghostVars, pc, rxq, peerOpen, soError, addr>>

\* c.Update(poller.At(0)); reading SO_ERROR clears the pending error
ErrUpdate ==
    /\ Registered
    /\ Update(1, At(0), 0, soError)
    /\ soError' = IF last'.calls # <<>> THEN 0 ELSE soError
    /\ UNCHANGED <<mPollList, pc, rxq, peerOpen, addr>>

\* c.TryRecv(...); a recv() that returns the pending error clears it
ErrTryRecv ==
    /\ Registered
    /\ TryRecv(1, KernelRecv)
    /\ soError' = IF last'.calls # <<>> THEN 0 ELSE soError
    /\ rxq' = IF last'.calls # <<>> /\ soError = 0 /\ rxq > 0 THEN rxq - 1 ELSE rxq
    /\ UNCHANGED <<mPollList, pc, peerOpen, addr>>

\* the connection is reset: an error becomes pending on the descriptor
KernelError ==
    /\ Registered /\ soError = 0
    /\ soError' = ECONNRESET
    /\ UNCHANGED <<sockVars, osVars, ghostVars, last, mPollList, pc, rxq, peerOpen, addr>>

ErrNext ==
    \/ CycleConstruct
    \/ CycleAdd
    \/ ErrPoll
    \/ ErrUpdate
    \/ ErrTryRecv
    \/ KernelError
    \/ PeerSend

ErrSpec == Init /\ [][ErrNext]_vars

\* --------------------------------------------------- LocalAddress objects
NoOthers ==
    UNCHANGED <<sockVars, osVars, ghostVars, mPollList, pc, rxq, peerOpen, soError>>

\* a = LocalAddress(path)
AddressFromPath(hi, lo, nul, ub) ==
    LET b == LocalAddressPath(hi, lo, nul, ub)
    IN  /\ addr' = b.obj
        /\ last' = Last("LocalAddress", 0, lo, b.out, <<>>)

\* a = LocalAddress()
AddressEmpty ==
    /\ addr' = LocalAddressEmpty
    /\ last' = Last("LocalAddressEmpty", 0, 0, Void, <<>>)

\* a.GetPath(): the NUL terminated string in sun_path, here its length
GetPath ==
    /\ addr.made
    /\ last' = Last("GetPath", 0, 0, Outcome("value", addr.cstr), <<>>)
    /\ UNCHANGED addr

\* a.GetSize()
GetAddrSize ==
    /\ addr.made
    /\ last' = Last("GetSize", 0, 0, Outcome("value", addr.mSize), <<>>)
    /\ UNCHANGED addr

\* a.GetSizePtr()
GetSizePtr ==
    /\ addr.made
    /\ addr' = [addr EXCEPT !.mSize = sMaxSize]
    /\ last' = Last("GetSizePtr", 0, 0, Outcome("value", sMaxSize), <<>>)

\* a.IsValid()
IsValid ==
    /\ addr.made
    /\ last' = Last("IsValid", 0, 0,
                    Outcome("bool", IF addr.sun_family = AF_UNIX THEN 1 ELSE 0), <<>>)
    /\ UNCHANGED addr

\* a.Unlink(): the result of unlink() is discarded
Unlink(e) ==
    /\ addr.made
    /\ last' = Last("Unlink", 0, 0, Void, <<Call("unlink", Res(e, 0))>>)
    /\ UNCHANGED addr

\* path lengths around the limits: empty, short, at and beyond the capacity of
\* sun_path, and the lengths at which the 32 bit size wraps around
ShortLens == {0, 1, 2, PathBytes - 2, PathBytes - 1, PathBytes, PathBytes + 1}
WideLens ==
    {<<1, 0>>, <<HalfWord - 1, HalfWord - sPathOffset - 2>>,
     <<HalfWord - 1, HalfWord - sPathOffset - 1>>, <<HalfWord - 1, HalfWord - 1>>}

AddrNext ==
    \/ \E lo \in ShortLens, nul \in 0..MaxNul :
          nul <= lo /\ AddressFromPath(0, lo, nul, "crash") /\ NoOthers
    \/ \E w \in WideLens, ub \in UndefinedCopies :
          AddressFromPath(w[1], w[2], 0, ub) /\ NoOthers
    \/ AddressEmpty /\ NoOthers
    \/ GetPath /\ NoOthers
    \/ GetAddrSize /\ NoOthers
    \/ GetSizePtr /\ NoOthers
    \/ IsValid /\ NoOthers
    \/ \E e \in {0, EACCES} : Unlink(e) /\ NoOthers

AddrSpec == Init /\ [][AddrNext]_vars

\* ================================================================== claims
MoveOps == {"MoveConstruct", "MoveAssign"}
Holders(f) == {s \in Slots : live[s] # "none" /\ mDescriptor[s] = f}

\* C1: close is invoked at most once for each descriptor obtained from socket()
\* or accept(), whatever constructions, moves and destructions happen.
C1_NoDoubleClose == \A f \in Fds : closeCount[f] <= 1

\* C1 witness: a descriptor that went through a move has been closed by a
\* destructor while the object it was moved from is still alive and empty.
C1_Witness ==
    /\ last.op = "Destroy" /\ last.arg # sInvalidSocket
    /\ closeCount[last.arg] = 1
    /\ \E s \in Slots : live[s] # "none" /\ mDescriptor[s] = sInvalidSocket

\* C2: no descriptor is leaked: once every object is destroyed or has failed
\* construction, every descriptor the layer obtained has been closed.
C2_NoLeak ==
    (\A s \in Slots : live[s] = "none") => \A f \in opened : closeCount[f] >= 1

\* C3: a move construction or move assignment gives the destination the
\* source's descriptor and leaves the source holding the invalid sentinel.
C3_MoveLeavesSourceEmpty ==
    [][last'.op \in MoveOps =>
          /\ mDescriptor'[last'.sock] = mDescriptor[last'.arg]
          /\ mDescriptor'[last'.arg] = sInvalidSocket]_vars

ReadOps == {"TryRecv", "Accept"}
WouldBlock == {EAGAIN, EWOULDBLOCK}

\* C4: on any Connector or Acceptor, however it was created and as long as
\* SetBlocking() was never called on it, TrySend with no cached writable flag
\* and TryRecv or Accept with no cached readable flag issue no system call and
\* return the would-block outcome.
C4_WouldBlockTransparency ==
    [][\A s \in Slots :
          (/\ last'.sock = s /\ live[s] # "none" /\ ~askedBlocking[s]
           /\ \/ last'.op = "TrySend" /\ ~mIsWritable[s]
              \/ last'.op \in ReadOps /\ ~mIsReadable[s])
          => (last'.calls = <<>> /\ last'.kind = "nullopt")]_vars

\* C6 as stated: a cached flag survives an attempt that ends in would-block.
C6_FlagSurvivesWouldBlock ==
    [][\A s \in Slots :
          (last'.sock = s /\ live[s] # "none" /\ last'.kind = "nullopt") =>
              /\ (last'.op = "TrySend" /\ mIsWritable[s]) => mIsWritable'[s]
              /\ (last'.op \in ReadOps /\ mIsReadable[s]) => mIsReadable'[s]]_vars

\* C6 amended: a cached flag is cleared by the first attempt it gates (TrySend
\* for writable, TryRecv or Accept for readable), whatever that attempt returns,
\* and an attempt leaves the flag of the other direction as it was.
C6_AttemptClearsFlag ==
    [][\A s \in Slots :
          (last'.sock = s /\ live[s] # "none") =>
              /\ last'.op = "TrySend" =>
                     (~mIsWritable'[s] /\ mIsReadable'[s] = mIsReadable[s])
              /\ last'.op \in ReadOps =>
                     (~mIsReadable'[s] /\ mIsWritable'[s] = mIsWritable[s])]_vars

\* C6 witness: a TrySend on a non-blocking Socket issued send(), so its
\* writable flag was cached, the call raced into would-block, and the flag is gone.
C6_Witness ==
    /\ last.op = "TrySend" /\ last.kind = "nullopt" /\ last.calls # <<>>
    /\ mIsNonBlocking[last.sock] /\ ~mIsWritable[last.sock]

\* C7: a cached readable flag stays set across Update calls (whatever the event,
\* whatever Update returns) and TrySend calls, and the next readable-consuming
\* operation finds the gate open; likewise the writable flag across Update,
\* TryRecv and Accept, and the next TrySend.
C7_ReadinessPersists ==
    [][\A s \in Slots :
          (live[s] # "none" /\ live'[s] # "none") =>
              /\ (last'.op \in {"Update", "TrySend", "GetAndResetIsWritable"}
                  /\ mIsReadable[s]) => mIsReadable'[s]
              /\ (last'.op \in {"Update", "GetAndResetIsReadable"} \cup ReadOps
                  /\ mIsWritable[s]) => mIsWritable'[s]
              /\ (last'.sock = s /\ last'.op = "GetAndResetIsReadable" /\ mIsReadable[s])
                     => last'.v = 1
              /\ (last'.sock = s /\ last'.op \in ReadOps /\ mIsReadable[s])
                     => last'.calls # <<>>
              /\ (last'.sock = s /\ last'.op = "GetAndResetIsWritable" /\ mIsWritable[s])
                     => last'.v = 1
              /\ (last'.sock = s /\ last'.op = "TrySend" /\ mIsWritable[s])
                     => last'.calls # <<>>]_vars

\* C7 witness: an Update without the readable bit has returned false on a
\* non-blocking Socket whose readable flag is still cached.
C7_Witness ==
    /\ last.op = "Update" /\ last.arg = POLLHUP /\ last.kind = "bool" /\ last.v = 0
    /\ mIsReadable[last.sock] /\ mIsNonBlocking[last.sock]

GateOps == {"GetAndResetIsReadable", "GetAndResetIsWritable"}

\* C8 as stated: of two gate calls in a row on a cached flag, the first returns
\* true and the second false.
C8_GateThenClear ==
    /\ (last.op \in GateOps /\ last.arg = 1) => last.v = 1
    /\ (last.op \in GateOps /\ last.arg = 2) => last.v = 0

\* C8 amended: that holds for a Socket whose mIsNonBlocking is true; when it is
\* false both calls return true.
C8_GateThenClearNonBlocking ==
    /\ (last.op \in GateOps /\ last.arg = 1) => last.v = 1
    /\ (last.op \in GateOps /\ last.arg = 2) =>
           last.v = (IF mIsNonBlocking[last.sock] THEN 0 ELSE 1)

\* C8 witness: the second of two GetAndResetIsReadable calls in a row on a
\* non-blocking Socket has returned false.
C8_Witness ==
    /\ last.op = "GetAndResetIsReadable" /\ last.arg = 2 /\ last.v = 0
    /\ mIsNonBlocking[last.sock]

\* C9: Update classifies the event in strict priority order: errored raises,
\* else invalid or peer-closed returns false, else the readable and writable
\* bits are ORed into the cached flags and true is returned.
C9_UpdatePriority ==
    [][last'.op = "Update" =>
          LET s == last'.sock
              res == last'.arg
          IN  IF res \div POLLERR % 2 = 1
              THEN /\ last'.kind = "system_error"
                   /\ mIsReadable'[s] = mIsReadable[s] /\ mIsWritable'[s] = mIsWritable[s]
              ELSE IF res \div POLLNVAL % 2 = 1 \/ res \div POLLHUP % 2 = 1
              THEN /\ last'.kind = "bool" /\ last'.v = 0
                   /\ mIsReadable'[s] = mIsReadable[s] /\ mIsWritable'[s] = mIsWritable[s]
              ELSE /\ last'.kind = "bool" /\ last'.v = 1
                   /\ mIsReadable'[s] = (mIsReadable[s] \/ res % 2 = 1)
                   /\ mIsWritable'[s] = (mIsWritable[s] \/ res \div POLLOUT % 2 = 1)]_vars

\* C9 witness: Update has raised on an event that carries the errored bit
\* together with the peer-closed, readable and writable bits.
C9_Witness ==
    /\ last.op = "Update" /\ last.arg = POLLERR + POLLHUP + POLLIN + POLLOUT
    /\ last.kind = "system_error" /\ last.v = ECONNRESET

GatedOps == {"TrySend", "TryRecv", "Accept"}
FailedCalls == {i \in DOMAIN last.calls : last.calls[i].ret = -1}

\* C10 as stated: with the gate open the outcome is decided by the system
\* call's result alone: success value or new Connector, would-block, or raise.
C10_ThreeOutcomes ==
    (last.op \in GatedOps /\ last.calls # <<>>) =>
        LET c == last.calls[1]
        IN  /\ c.ret # -1 =>
                   IF last.op = "Accept" THEN last.kind = "connector"
                   ELSE last.kind = "value" /\ last.v = c.ret
            /\ (c.ret = -1 /\ c.errno \in WouldBlock) <=> last.kind = "nullopt"
            /\ (c.ret = -1 /\ c.errno \notin WouldBlock) =>
                   (last.kind = "system_error" /\ last.v = c.errno)

\* C10 amended: as stated for TrySend and TryRecv; after a successful accept()
\* Accept returns the new Connector only if constructing it succeeds, and
\* raises the fcntl error or InvalidArgument (wrong address family) otherwise.
C10_ThreeOutcomesAccept ==
    (last.op \in GatedOps /\ last.calls # <<>>) =>
        LET c == last.calls[1]
        IN  /\ c.ret # -1 =>
                   IF last.op # "Accept" THEN last.kind = "value" /\ last.v = c.ret
                   ELSE IF \E i \in FailedCalls : last.calls[i].name \in {"fcntl_getfl", "fcntl_setfl"}
                   THEN /\ last.kind = "system_error"
                        /\ \E i \in FailedCalls : last.v = last.calls[i].errno
                   ELSE IF last.arg # AF_UNIX THEN last.kind = "invalid_argument"
                   ELSE last.kind = "connector"
            /\ (c.ret = -1 /\ c.errno \in WouldBlock) <=> last.kind = "nullopt"
            /\ (c.ret = -1 /\ c.errno \notin WouldBlock) =>
                   (last.kind = "system_error" /\ last.v = c.errno)

\* C10 witness: accept() returned a descriptor and Accept raised InvalidArgument
\* because the peer address carried another family.
C10_Witness ==
    /\ last.op = "Accept" /\ last.calls # <<>> /\ last.calls[1].ret # -1
    /\ last.kind = "invalid_argument"

\* C5: in the cycle {Poll, Update(At(i)), TryRecv}, once the peer Connector is
\* destroyed the surviving Connector's TryRecv eventually returns 0, also when
\* the poll event carries both readable and peer-closed.
C5_OrderlyShutdown ==
    (~peerOpen) ~> (last.op = "TryRecv" /\ last.kind = "value" /\ last.v = 0)

TransientOps == GatedOps \cup {"ConstructConnector"}
TransferCalls == {"send", "recv", "accept", "connect"}

\* C11: when the OS reports would-block/try-again to the send, recv or accept
\* of TrySend, TryRecv, Accept, or to the connect made while constructing an
\* outbound Connector, the operation raises no typed failure.
C11_WouldBlockNeverRaised ==
    (/\ last.op \in TransientOps
     /\ \E i \in FailedCalls : /\ last.calls[i].name \in TransferCalls
                               /\ last.calls[i].errno \in WouldBlock)
    => ~Raised(last)

ReportOps == {"Update", "TryRecv"}

\* C12: each hard error pending on a descriptor is reported once: whenever
\* Update or a gated operation raises, an error not reported before is pending
\* on the descriptor, the failure carries its code (never code 0), and the
\* error is no longer pending afterwards, so that a repeated Update on the same
\* or a stale poll result raises nothing.
C12_ErrorReportedOnce ==
    [][(last' # last /\ last'.op \in ReportOps /\ last'.kind = "system_error")
          => (soError # sNotAnError /\ last'.v = soError /\ soError' = sNotAnError)]_vars

\* C13: Poll raises a typed failure only on a hard OS error; an interrupted
\* wait (EINTR) ends the wait like readiness or the timeout and is not raised.
C13_PollInterruptNotRaised ==
    last.op = "Poll" =>
        (Raised(last) <=> \E i \in FailedCalls : last.calls[i].errno # EINTR)

\* the entries of list whose index (from 0) is not in the set given as a bit mask
KeptAfter(list, mask) ==
    LET kept == {j \in 1..Len(list) : (mask \div 2^(j - 1)) % 2 = 0}
        nth(k) == CHOOSE j \in kept : Cardinality({x \in kept : x < j}) = k - 1
    IN  [k \in 1..Cardinality(kept) |-> list[nth(k)]]

\* C14: Remove(i) with 0 <= i < GetSize() drops exactly the entry at index i:
\* the size decreases by one, entries below i keep index, descriptor, mask and
\* last event, entries above i shift down by one in unchanged order; removing a
\* set of indices from the highest to the lowest removes exactly the entries
\* that held those indices before.
C14_RemoveDropsEntry ==
    [][/\ (last'.op = "Remove" /\ last'.kind = "void") =>
              LET i == last'.arg
              IN  /\ 0 <= i /\ i < Len(mPollList)
                  /\ Len(mPollList') = Len(mPollList) - 1
                  /\ \A j \in 1..Len(mPollList') :
                         mPollList'[j] = IF j <= i THEN mPollList[j] ELSE mPollList[j + 1]
       /\ last'.op = "RemoveBatch" => mPollList' = KeptAfter(mPollList, last'.arg)]_vars

\* C14 witness: an entry that had entries on both sides has been removed.
C14_Witness ==
    /\ last.op = "Remove" /\ last.kind = "void" /\ last.arg = 1
    /\ Len(mPollList) = 2 /\ mPollList[1] # mPollList[2]

\* C15: the poll list holds the registered and not yet removed descriptors in
\* insertion order: AddAcceptor appends an entry asking for readable only,
\* AddConnector one asking for readable and writable, Remove and Clear only
\* drop entries, GetSize returns the number of entries, and Poll changes no
\* descriptor, no mask and not the order.
C15_PollListContents ==
    [][/\ last'.op = "AddAcceptor" =>
              mPollList' = Append(mPollList, [fd |-> last'.arg, events |-> POLLIN,
                                              revents |-> 0])
       /\ last'.op = "AddConnector" =>
              mPollList' = Append(mPollList, [fd |-> last'.arg, events |-> POLLIN + POLLOUT,
                                              revents |-> 0])
       /\ (last'.op = "Remove" /\ last'.kind = "void") =>
              \E i \in 1..Len(mPollList) : mPollList' = KeptAfter(mPollList, 2^(i - 1))
       /\ last'.op = "Clear" => mPollList' = <<>>
       /\ last'.op = "GetSize" => (last'.v = Len(mPollList) /\ mPollList' = mPollList)
       /\ last'.op = "At" => mPollList' = mPollList
       /\ last'.op = "Poll" =>
              /\ Len(mPollList') = Len(mPollList)
              /\ \A i \in 1..Len(mPollList) :
                     /\ mPollList'[i].fd = mPollList[i].fd
                     /\ mPollList'[i].events = mPollList[i].events]_vars

\* C15 witness: Poll has stored events in a list that holds an acceptor entry
\* after a connector entry.
C15_Witness ==
    /\ last.op = "Poll" /\ last.kind = "void" /\ Len(mPollList) >= 2
    /\ mPollList[1].events = POLLIN + POLLOUT /\ mPollList[1].revents = POLLIN + POLLOUT
    /\ mPollList[2].events = POLLIN /\ mPollList[2].revents = POLLIN

\* C16: once SetBlocking() has been called on a Socket, its
\* GetAndResetIsReadable() and GetAndResetIsWritable() return true whatever the
\* cached flags are, through every later Update and gate call; SetBlocking()
\* changes the tracked mode of that Socket and the status flags of its
\* descriptor only.
C16_BlockingGateAlwaysOpen ==
    [][/\ (last'.op \in GateOps /\ askedBlocking[last'.sock]) => last'.v = 1
       /\ last'.op = "SetBlocking" =>
              /\ \A s \in Slots \ {last'.sock} : mIsNonBlocking'[s] = mIsNonBlocking[s]
              /\ \A f \in Fds \ {mDescriptor[last'.sock]} : statusFlags'[f] = statusFlags[f]
              /\ ~mIsNonBlocking'[last'.sock]]_vars

\* C16 witness: a gate call has returned true on a Socket in blocking mode whose
\* flag was not cached, while another Socket is still in non-blocking mode.
C16_Witness ==
    /\ last.op = "GetAndResetIsReadable" /\ last.arg = 0 /\ last.v = 1
    /\ askedBlocking[last.sock]
    /\ \E s \in Slots \ {last.sock} :
          /\ live[s] # "none" /\ mIsNonBlocking[s]
          /\ HasBit(statusFlags[mDescriptor[s]], O_NONBLOCK)

\* the longest path LocalAddress is meant to take: record size, minus the
\* fixed header, minus one terminator byte
Capacity == sMaxSize - sPathOffset - 1

\* C17: LocalAddress(path) succeeds exactly when 1 <= length(path) <= capacity;
\* then the family tag is the local-socket family, the logical size is header +
\* length + 1 <= maximum record size, and the path accessor returns the path
\* given (for a path without embedded NUL). An empty path fails with
\* InvalidArgument, a path longer than the capacity with LengthError.
C17_AddressRoundTrip ==
    LET fits == addr.hi = 0 /\ 1 <= addr.lo /\ addr.lo <= Capacity
    IN  /\ last.op = "LocalAddress" =>
              /\ (last.kind = "void") <=> fits
              /\ addr.made <=> fits
              /\ fits => /\ addr.sun_family = AF_UNIX
                         /\ addr.mSize = sPathOffset + addr.lo + 1
                         /\ addr.mSize <= sMaxSize
                         /\ addr.nul = 0 => addr.cstr = addr.lo
              /\ (addr.hi = 0 /\ addr.lo = 0) => last.kind = "invalid_argument"
              /\ (addr.hi > 0 \/ addr.lo > Capacity) => last.kind = "length_error"
        /\ (last.op = "GetPath" /\ fits /\ addr.nul = 0) => last.v = addr.lo

\* the positions in the last operation's log of the calls to `name`
CallsTo(name) == {i \in DOMAIN last.calls : last.calls[i].name = name}
Succeeded(name) == \E i \in CallsTo(name) : last.calls[i].ret # -1
Failed(name) == \E i \in CallsTo(name) : last.calls[i].ret = -1

\* C18: constructing an Acceptor opens the descriptor and makes it
\* non-blocking, then unlinks the path, then binds, then listens: bind is never
\* issued before unlink, listen never before a successful bind, the Acceptor
\* exists only if all steps succeeded; a failing bind or listen raises the OS
\* error, leaves no Acceptor and stops the sequence; a failing unlink is
\* discarded and the sequence goes on.
C18_AcceptorSetupOrder ==
    last.op = "ConstructAcceptor" =>
        /\ \A u \in CallsTo("unlink") :
               \E o \in CallsTo("fcntl_setfl") : o < u /\ last.calls[o].ret # -1
        /\ \A b \in CallsTo("bind") : \E u \in CallsTo("unlink") : u < b
        /\ \A l \in CallsTo("listen") :
               \E b \in CallsTo("bind") : b < l /\ last.calls[b].ret # -1
        /\ live[last.sock] = "Acceptor" <=>
               (/\ Succeeded("socket") /\ Succeeded("fcntl_setfl")
                /\ Succeeded("bind") /\ Succeeded("listen"))
        /\ live[last.sock] = "Acceptor" <=> last.kind = "void"
        /\ Failed("bind") =>
               /\ last.kind = "system_error"
               /\ \E b \in CallsTo("bind") : last.v = last.calls[b].errno
               /\ CallsTo("listen") = {}
        /\ Failed("listen") =>
               /\ last.kind = "system_error"
               /\ \E l \in CallsTo("listen") : last.v = last.calls[l].errno
        /\ Failed("unlink") => CallsTo("bind") # {}

\* C18 witness: an Acceptor exists although unlink failed during its construction.
C18_Witness ==
    /\ last.op = "ConstructAcceptor" /\ Failed("unlink")
    /\ live[last.sock] = "Acceptor" /\ Succeeded("listen")

\* C19: for every Socket that holds a descriptor and on which SetBlocking() was
\* never called, however it was created (by a constructor, by a move, as the
\* Connector returned by Accept()), the tracked mIsNonBlocking is true, as is
\* the O_NONBLOCK flag of its descriptor.
C19_TrackedModeAgrees ==
    \A s \in Slots :
        (live[s] # "none" /\ mDescriptor[s] # sInvalidSocket /\ ~askedBlocking[s]) =>
            /\ mIsNonBlocking[s]
            /\ HasBit(statusFlags[mDescriptor[s]], O_NONBLOCK)

\* C20: Update never clears a cached flag and leaves both flags unchanged when
\* it raises or returns false; it never changes the owned descriptor or the
\* tracked mode; GetAndResetIsReadable, TryRecv and Accept leave the writable
\* flag unchanged, GetAndResetIsWritable and TrySend the readable flag.
C20_ReadinessFrame ==
    [][\A s \in Slots :
          (live[s] # "none" /\ last'.sock = s) =>
              /\ last'.op = "Update" =>
                     /\ mIsReadable[s] => mIsReadable'[s]
                     /\ mIsWritable[s] => mIsWritable'[s]
                     /\ (last'.kind = "system_error" \/ last'.v = 0) =>
                            /\ mIsReadable'[s] = mIsReadable[s]
                            /\ mIsWritable'[s] = mIsWritable[s]
                     /\ mDescriptor' = mDescriptor
                     /\ mIsNonBlocking' = mIsNonBlocking
                     /\ statusFlags' = statusFlags
              /\ last'.op \in {"GetAndResetIsReadable"} \cup ReadOps =>
                     mIsWritable'[s] = mIsWritable[s]
              /\ last'.op \in {"GetAndResetIsWritable", "TrySend"} =>
                     mIsReadable'[s] = mIsReadable[s]]_vars

\* C20 witness: an Update that returned false has left a cached writable flag
\* and an uncached readable flag as they were, although the event carried the
\* readable bit.
C20_Witness ==
    /\ last.op = "Update" /\ last.arg = POLLIN + POLLHUP /\ last.kind = "bool" /\ last.v = 0
    /\ mIsWritable[last.sock] /\ ~mIsReadable[last.sock]
====
